---- MODULE Spec2Model ----
(***************************************************************************)
(* Socketly: a reconnecting WebSocket wrapper (src/src/socketly.ts).       *)
(*                                                                         *)
(* The instance is modelled as a record `st` of its private fields plus    *)
(* the transports it has created and the observation logs; every method    *)
(* and handler of the class is an operator from record to record, and      *)
(* every action of the state machine applies one of them atomically, as    *)
(* the JavaScript run-to-completion rule does.  An exception thrown by a   *)
(* subscriber travels in the record's `exception` field through every      *)
(* operator that does not catch it.  close() is the one method             *)
(* that suspends (at its await): it is two steps, the part before the      *)
(* await and the continuation, and no timer or transport event (both are   *)
(* macrotasks) can run between them.                                       *)
(***************************************************************************)
EXTENDS Integers, Sequences, FiniteSets, TLC

VARIABLES
    maxRetries,         \* #maxRetries: [finite |-> BOOLEAN, n |-> Nat]
    reconnectInterval,  \* #reconnectInterval
    sockets,            \* readyState of every WebSocket created, by creation order
    socket,             \* #socket: index into sockets, 0 = never assigned
    retryCount,         \* #retryCount
    aborted,            \* #abortController.signal.aborted
    messageQueue,       \* #messageQueue
    eventListeners,     \* #eventListeners: event kind -> callbacks in insertion order
    timers,             \* pending setTimeout(() => this.#connect(), delay): their delays
    closePending,       \* close() calls suspended at their await
    wire,               \* log of WebSocket.send calls: [socket, message, from]
    emitted,            \* log of #emit calls: [event, data]
    delivered,          \* log of callback invocations: [cb, arg]
    sendCalls,          \* log of send() calls: the serialized payload of each
    raised,             \* log of exceptions that reached a caller of the public API
    closeCalls,         \* number of close() calls entered (one logger line each)
    calls,              \* log of on() / off() calls: <<method, event, callback>>
    consumer,           \* the consumer of messages(): "idle" or "waiting" on a demand
    yielded,            \* the values messages() has yielded to its consumer
    nInputs             \* number of API calls and message/error events so far

vars == <<maxRetries, reconnectInterval, sockets, socket, retryCount, aborted,
          messageQueue, eventListeners, timers, closePending, wire, emitted,
          delivered, sendCalls, raised, closeCalls, calls, consumer, yielded,
          nInputs>>

----------------------------------------------------------------------------
(* Bounds of the exploration: transports created, and inputs taken from   *)
(* outside (calls of the public API, inbound message and error events).   *)

MaxSockets == 3
MaxInputs == 2

(* Program constants *)

MAX_DELAY == 30000
DefaultReconnectInterval == 3000

CONNECTING == 0
OPEN == 1
CLOSING == 2
CLOSED == 3

Infinity == [finite |-> FALSE, n |-> 0]
Finite(n) == [finite |-> TRUE, n |-> n]

(* Inputs.  A configuration is <<maxRetries, reconnectInterval>>.  The     *)
(* callbacks are what a subscriber may do when invoked: return (cbLog),    *)
(* call send (cbSend, as in the README's 'open' subscriber) or call        *)
(* close (cbClose); all of them return normally.                           *)

Configurations == {<<Finite(2), 100>>, <<Finite(0), DefaultReconnectInterval>>,
                   <<Infinity, 20000>>}
IncomingData == {"7", "{oops"}
ConstructOutcomes == {"ok", "throwsError", "throwsOther"}

WebSocketEvent == {"open", "close", "message", "error", "reconnect", "*"}
Callbacks == {"cbLog", "cbSend", "cbClose"}
Subscriptions == {<<"open", "cbSend">>, <<"close", "cbClose">>,
                  <<"message", "cbLog">>, <<"*", "cbLog">>}

Undefined == <<>>

None == "none"

----------------------------------------------------------------------------
(* Helpers *)

Min(a, b) == IF a < b THEN a ELSE b

RECURSIVE Pow(_, _)
Pow(base, exponent) == IF exponent = 0 THEN 1 ELSE base * Pow(base, exponent - 1)

Digit(n) == <<"0", "1", "2", "3", "4", "5", "6", "7", "8", "9">>[n + 1]

RECURSIVE JSONstringify(_)
JSONstringify(n) ==
    IF n < 10 THEN Digit(n) ELSE JSONstringify(n \div 10) \o Digit(n % 10)

JSONparse(s) ==
    IF \E n \in 0..99 : JSONstringify(n) = s
    THEN [ok |-> TRUE, value |-> CHOOSE n \in 0..99 : JSONstringify(n) = s]
    ELSE [ok |-> FALSE, value |-> 0]

structuredClone(v) == v

Truthy(message) == message # ""

LessThanOrEqual(count, max) == ~max.finite \/ count <= max.n

LessThan(count, max) == ~max.finite \/ count < max.n

Remove(seq, x) == SelectSeq(seq, LAMBDA y : y # x)

Contains(seq, x) == \E i \in 1..Len(seq) : seq[i] = x

readyState(st) == st.sockets[st.socket]

Transmission(s, message, from) == [socket |-> s, message |-> message, from |-> from]

----------------------------------------------------------------------------
(* The public methods that subscribers may call back into *)

send(st, data) ==
    LET message == JSONstringify(data)
        st1 == [st EXCEPT !.sendCalls = Append(@, message)]
    IN  IF st1.socket = 0
        THEN [st1 EXCEPT !.raised = Append(@, "send: TypeError")]
        ELSE IF readyState(st1) = OPEN
             THEN [st1 EXCEPT !.wire = Append(@, Transmission(st1.socket, message, "send"))]
             ELSE [st1 EXCEPT !.messageQueue = Append(@, message)]

closeKeepsListeners(st) ==
    [st EXCEPT !.closeCalls = @ + 1,
               !.aborted = TRUE,
               !.closePending = @ + 1]

closeBeforeAwait(st) ==
    [st EXCEPT !.closeCalls = @ + 1,
               !.aborted = TRUE,
               !.eventListeners = [e \in WebSocketEvent |-> <<>>],
               !.closePending = @ + 1]

onAlwaysAppends(st, event, callback) ==
    [st EXCEPT !.calls = Append(@, <<"on", event, callback>>),
               !.eventListeners[event] = Append(@, callback)]

on(st, event, callback) ==
    LET st1 == [st EXCEPT !.calls = Append(@, <<"on", event, callback>>)]
    IN  IF Contains(st1.eventListeners[event], callback)
        THEN st1
        ELSE [st1 EXCEPT !.eventListeners[event] = Append(@, callback)]

off(st, event, callback) ==
    [st EXCEPT !.calls = Append(@, <<"off", event, callback>>),
               !.eventListeners[event] = Remove(@, callback)]

(* messages(): one demand of the next element registers the one-shot      *)
(* subscriber onMessage, which unregisters itself and resolves the demand. *)
demand(st) == on([st EXCEPT !.consumer = "waiting"], "message", "onMessage")

onMessageStaysRegistered(st, data) ==
    [st EXCEPT !.yielded = Append(@, data), !.consumer = "idle"]

onMessage(st, data) ==
    [off(st, "message", "onMessage") EXCEPT !.yielded = Append(@, data),
                                            !.consumer = "idle"]

----------------------------------------------------------------------------
(* Subscribers and emission *)

invoke(st, event, callback, arg) ==
    LET st1 == [st EXCEPT !.delivered =
                   Append(@, [cb |-> callback, arg |-> arg, kind |-> event])]
    IN  CASE callback = "cbSend" -> send(st1, 0)
          [] callback = "cbClose" -> closeBeforeAwait(st1)
          [] callback = "cbThrow" -> [st1 EXCEPT !.exception = "Error: subscriber"]
          [] callback = "onMessage" -> onMessage(st1, arg)
          [] OTHER -> st1

RECURSIVE forEach(_, _, _, _)
forEach(st, event, i, arg) ==
    IF i > Len(st.eventListeners[event]) \/ st.exception # None
    THEN st
    ELSE LET callback == st.eventListeners[event][i]
             st1 == invoke(st, event, callback, arg)
             stays == /\ i <= Len(st1.eventListeners[event])
                      /\ st1.eventListeners[event][i] = callback
         IN  forEach(st1, event, IF stays THEN i + 1 ELSE i, arg)

emitWildcardFirst(st, event, data) ==
    LET st1 == [st EXCEPT !.emitted = Append(@, [event |-> event, data |-> data])]
        st2 == forEach(st1, "*", 1, [event |-> event, data |-> data])
    IN  IF st2.exception # None
        THEN st2
        ELSE forEach(st2, event, 1, data)

emit(st, event, data) ==
    LET st1 == [st EXCEPT !.emitted = Append(@, [event |-> event, data |-> data])]
        st2 == forEach(st1, event, 1, data)
    IN  IF st2.exception # None
        THEN st2
        ELSE forEach(st2, "*", 1, [event |-> event, data |-> data])

----------------------------------------------------------------------------
(* Private handlers *)

exponentialBackoffUncapped(interval, attempt) == interval * Pow(2, attempt)

exponentialBackoff(interval, attempt) ==
    Min(interval * Pow(2, attempt), MAX_DELAY)

RECURSIVE flushMessageQueuePop(_)
flushMessageQueuePop(st) ==
    IF Len(st.messageQueue) > 0 /\ readyState(st) = OPEN
    THEN LET message == st.messageQueue[Len(st.messageQueue)]
             st1 == [st EXCEPT !.messageQueue = SubSeq(@, 1, Len(@) - 1)]
         IN  flushMessageQueuePop(
                 IF Truthy(message)
                 THEN [st1 EXCEPT !.wire =
                          Append(@, Transmission(st1.socket, message, "flush"))]
                 ELSE st1)
    ELSE st

RECURSIVE flushMessageQueue(_)
flushMessageQueue(st) ==
    IF Len(st.messageQueue) > 0 /\ readyState(st) = OPEN
    THEN LET message == Head(st.messageQueue)
             st1 == [st EXCEPT !.messageQueue = Tail(@)]
         IN  flushMessageQueue(
                 IF Truthy(message)
                 THEN [st1 EXCEPT !.wire =
                          Append(@, Transmission(st1.socket, message, "flush"))]
                 ELSE st1)
    ELSE st

handleErrorReconnects(st, error) ==
    LET st1 == emit(st, "error", error)
    IN  IF LessThan(st1.retryCount, st1.maxRetries) /\ ~st1.aborted
        THEN [st1 EXCEPT !.retryCount = @ + 1,
                         !.timers = Append(@, exponentialBackoff(
                                        st1.reconnectInterval, st1.retryCount))]
        ELSE st1

handleError(st, error) == emit(st, "error", error)

connectRetriesOnThrow(st, outcome) ==
    IF outcome = "ok"
    THEN [st EXCEPT !.sockets = Append(@, CONNECTING),
                    !.socket = Len(st.sockets) + 1]
    ELSE LET st1 == handleError(st, [name |-> "Error",
                                     message |-> "thrown by WebSocket"])
             delay == exponentialBackoff(st1.reconnectInterval, st1.retryCount)
             st2 == [st1 EXCEPT !.retryCount = @ + 1]
             st3 == emit(st2, "reconnect",
                         [attempt |-> st2.retryCount, delay |-> delay])
         IN  [st3 EXCEPT !.timers = Append(@, delay)]

connect(st, outcome) ==
    CASE outcome = "ok" ->
            [st EXCEPT !.sockets = Append(@, CONNECTING),
                       !.socket = Len(st.sockets) + 1]
      [] outcome = "throwsError" ->
            handleError(st, [name |-> "Error", message |-> "thrown by WebSocket"])
      [] OTHER ->
            handleError(st, [name |-> "Error", message |-> "An unknown error occurred"])

handleOpenEmitsFirst(st) ==
    flushMessageQueue(emit([st EXCEPT !.retryCount = 0], "open", Undefined))

handleOpenKeepsCount(st) ==
    emit(flushMessageQueue(st), "open", Undefined)

handleOpen(st) ==
    emit(flushMessageQueue([st EXCEPT !.retryCount = 0]), "open", Undefined)

handleCloseUnlimited(st) ==
    LET st1 == emit(st, "close", Undefined)
    IN  IF ~st1.aborted
        THEN LET delay == exponentialBackoff(st1.reconnectInterval, st1.retryCount)
                 st2 == [st1 EXCEPT !.retryCount = @ + 1]
                 st3 == emit(st2, "reconnect",
                             [attempt |-> st2.retryCount, delay |-> delay])
             IN  IF st3.exception # None
                 THEN st3
                 ELSE [st3 EXCEPT !.timers = Append(@, delay)]
        ELSE st1

handleClosePreIncrement(st) ==
    LET st1 == emit(st, "close", Undefined)
    IN  IF LessThan(st1.retryCount, st1.maxRetries) /\ ~st1.aborted
        THEN LET st2 == [st1 EXCEPT !.retryCount = @ + 1]
                 delay == exponentialBackoff(st2.reconnectInterval, st2.retryCount)
                 st3 == emit(st2, "reconnect",
                             [attempt |-> st2.retryCount, delay |-> delay])
             IN  IF st3.exception # None
                 THEN st3
                 ELSE [st3 EXCEPT !.timers = Append(@, delay)]
        ELSE st1

handleCloseChecksFirst(st) ==
    LET eligible == LessThan(st.retryCount, st.maxRetries) /\ ~st.aborted
        st1 == emit(st, "close", Undefined)
    IN  IF eligible
        THEN LET delay == exponentialBackoff(st1.reconnectInterval, st1.retryCount)
                 st2 == [st1 EXCEPT !.retryCount = @ + 1]
                 st3 == emit(st2, "reconnect",
                             [attempt |-> st2.retryCount, delay |-> delay])
             IN  [st3 EXCEPT !.timers = Append(@, delay)]
        ELSE st1

handleClose(st) ==
    LET st1 == emit(st, "close", Undefined)
    IN  IF st1.exception # None
        THEN st1
        ELSE IF LessThan(st1.retryCount, st1.maxRetries) /\ ~st1.aborted
             THEN LET delay == exponentialBackoff(st1.reconnectInterval,
                                                  st1.retryCount)
                      st2 == [st1 EXCEPT !.retryCount = @ + 1]
                      st3 == emit(st2, "reconnect",
                                  [attempt |-> st2.retryCount, delay |-> delay])
                  IN  IF st3.exception # None
                      THEN st3
                      ELSE [st3 EXCEPT !.timers = Append(@, delay)]
             ELSE st1

closeAfterAwaitEmits(st) ==
    LET st1 == [st EXCEPT !.closePending = @ - 1]
        st2 == IF st1.socket = 0
               THEN [st1 EXCEPT !.raised = Append(@, "close: TypeError")]
               ELSE IF readyState(st1) \in {CONNECTING, OPEN}
                    THEN [st1 EXCEPT !.sockets[st1.socket] = CLOSING]
                    ELSE st1
    IN  emit(st2, "close", Undefined)

closeAfterAwait(st) ==
    LET st1 == [st EXCEPT !.closePending = @ - 1]
    IN  IF st1.socket = 0
        THEN [st1 EXCEPT !.raised = Append(@, "close: TypeError")]
        ELSE IF readyState(st1) \in {CONNECTING, OPEN}
             THEN [st1 EXCEPT !.sockets[st1.socket] = CLOSING]
             ELSE st1

handleMessageClosesOnError(st, eventData) ==
    LET parsed == JSONparse(eventData)
    IN  IF ~parsed.ok
        THEN handleError([st EXCEPT !.sockets[st.socket] = CLOSING],
                         [name |-> "Error", message |-> "SyntaxError"])
        ELSE emit(st, "message", structuredClone(parsed.value))

handleMessage(st, eventData) ==
    LET parsed == JSONparse(eventData)
        st1 == emit(st, "message", structuredClone(parsed.value))
    IN  IF ~parsed.ok
        THEN handleError(st, [name |-> "Error", message |-> "SyntaxError"])
        ELSE IF st1.exception # None
             THEN handleError([st1 EXCEPT !.exception = None],
                              [name |-> "Error", message |-> st1.exception])
             ELSE st1

----------------------------------------------------------------------------
(* The state as a record, and back *)

S == [maxRetries |-> maxRetries, reconnectInterval |-> reconnectInterval,
      sockets |-> sockets, socket |-> socket, retryCount |-> retryCount,
      aborted |-> aborted, messageQueue |-> messageQueue,
      eventListeners |-> eventListeners, timers |-> timers,
      closePending |-> closePending, wire |-> wire, emitted |-> emitted,
      delivered |-> delivered, sendCalls |-> sendCalls, raised |-> raised,
      closeCalls |-> closeCalls, calls |-> calls, consumer |-> consumer,
      yielded |-> yielded, exception |-> None]

Becomes(st) ==
    /\ maxRetries' = st.maxRetries
    /\ reconnectInterval' = st.reconnectInterval
    /\ sockets' = st.sockets
    /\ socket' = st.socket
    /\ retryCount' = st.retryCount
    /\ aborted' = st.aborted
    /\ messageQueue' = st.messageQueue
    /\ eventListeners' = st.eventListeners
    /\ timers' = st.timers
    /\ closePending' = st.closePending
    /\ wire' = st.wire
    /\ emitted' = st.emitted
    /\ delivered' = st.delivered
    /\ sendCalls' = st.sendCalls
    /\ raised' = IF st.exception # None
                 THEN Append(st.raised, "uncaught " \o st.exception)
                 ELSE st.raised
    /\ closeCalls' = st.closeCalls
    /\ calls' = st.calls
    /\ consumer' = st.consumer
    /\ yielded' = st.yielded

constructor(retries, interval, outcome) ==
    connect([maxRetries |-> retries, reconnectInterval |-> interval,
             sockets |-> <<>>, socket |-> 0, retryCount |-> 0,
             aborted |-> FALSE, messageQueue |-> <<>>,
             eventListeners |-> [e \in WebSocketEvent |-> <<>>],
             timers |-> <<>>, closePending |-> 0, wire |-> <<>>,
             emitted |-> <<>>, delivered |-> <<>>, sendCalls |-> <<>>,
             raised |-> <<>>, closeCalls |-> 0, calls |-> <<>>,
             consumer |-> "idle", yielded |-> <<>>, exception |-> None], outcome)

Starts(st) ==
    /\ maxRetries = st.maxRetries
    /\ reconnectInterval = st.reconnectInterval
    /\ sockets = st.sockets
    /\ socket = st.socket
    /\ retryCount = st.retryCount
    /\ aborted = st.aborted
    /\ messageQueue = st.messageQueue
    /\ eventListeners = st.eventListeners
    /\ timers = st.timers
    /\ closePending = st.closePending
    /\ wire = st.wire
    /\ emitted = st.emitted
    /\ delivered = st.delivered
    /\ sendCalls = st.sendCalls
    /\ raised = st.raised
    /\ closeCalls = st.closeCalls
    /\ calls = st.calls
    /\ consumer = st.consumer
    /\ yielded = st.yielded
    /\ nInputs = 0

Init ==
    \E config \in Configurations, outcome \in ConstructOutcomes :
        Starts(constructor(config[1], config[2], outcome))

----------------------------------------------------------------------------
(* Actions: calls of the public API *)

(* The code never inspects a payload beyond the truthiness of its          *)
(* serialization, so the n-th send() call carries the payload n.           *)
Send ==
    /\ nInputs < MaxInputs
    /\ \E data \in {Len(sendCalls) + 1} : Becomes(send(S, data))
    /\ nInputs' = nInputs + 1

Close ==
    /\ nInputs < MaxInputs
    /\ Becomes(closeBeforeAwait(S))
    /\ nInputs' = nInputs + 1

CloseResume ==
    /\ closePending > 0
    /\ Becomes(closeAfterAwait(S))
    /\ UNCHANGED nInputs

On ==
    /\ nInputs < MaxInputs
    /\ \E sub \in Subscriptions : Becomes(on(S, sub[1], sub[2]))
    /\ nInputs' = nInputs + 1

Off ==
    /\ nInputs < MaxInputs
    /\ \E sub \in Subscriptions : Becomes(off(S, sub[1], sub[2]))
    /\ nInputs' = nInputs + 1

(* Actions: macrotasks, which never run while a continuation is pending *)

SocketOpen ==
    /\ closePending = 0
    /\ \E s \in 1..Len(sockets) :
          /\ sockets[s] = CONNECTING
          /\ Becomes(handleOpen([S EXCEPT !.sockets[s] = OPEN]))
    /\ UNCHANGED nInputs

SocketClose ==
    /\ closePending = 0
    /\ \E s \in 1..Len(sockets) :
          /\ sockets[s] # CLOSED
          /\ Becomes(handleClose([S EXCEPT !.sockets[s] = CLOSED]))
    /\ UNCHANGED nInputs

SocketError ==
    /\ closePending = 0
    /\ nInputs < MaxInputs
    /\ \E s \in 1..Len(sockets) :
          /\ sockets[s] # CLOSED
          /\ Becomes(handleError(S, [name |-> "Event", message |-> "error"]))
    /\ nInputs' = nInputs + 1

SocketMessage ==
    /\ closePending = 0
    /\ nInputs < MaxInputs
    /\ \E s \in 1..Len(sockets), eventData \in IncomingData :
          /\ sockets[s] \in {OPEN, CLOSING}
          /\ Becomes(handleMessage(S, eventData))
    /\ nInputs' = nInputs + 1

ReconnectTimer ==
    /\ closePending = 0
    /\ Len(sockets) < MaxSockets
    /\ \E i \in 1..Len(timers), outcome \in ConstructOutcomes :
          Becomes(connect(
              [S EXCEPT !.timers = SubSeq(@, 1, i - 1) \o SubSeq(@, i + 1, Len(@))],
              outcome))
    /\ UNCHANGED nInputs

Next ==
    \/ Send
    \/ Close
    \/ CloseResume
    \/ On
    \/ Off
    \/ SocketOpen
    \/ SocketClose
    \/ SocketError
    \/ SocketMessage
    \/ ReconnectTimer

Spec == Init /\ [][Next]_vars

----------------------------------------------------------------------------
(* A run of consecutive failed connects, for the backoff policy: the        *)
(* transport closes without ever opening and the timer reconnects, with     *)
(* unbounded maxRetries, until MaxAttempts reconnects have been scheduled.  *)

MaxAttempts == 11

BackoffIntervals == {1, 100, 1000, DefaultReconnectInterval, 5000, 20000,
                     MAX_DELAY, 40000}

InitBackoff ==
    \E interval \in BackoffIntervals :
        Starts(constructor(Infinity, interval, "ok"))

FailedConnect ==
    /\ retryCount < MaxAttempts
    /\ \E s \in 1..Len(sockets) :
          /\ sockets[s] = CONNECTING
          /\ Becomes(handleClose([S EXCEPT !.sockets[s] = CLOSED]))
    /\ UNCHANGED nInputs

Retry ==
    /\ \E i \in 1..Len(timers) :
          Becomes(connect(
              [S EXCEPT !.timers = SubSeq(@, 1, i - 1) \o SubSeq(@, i + 1, Len(@))],
              "ok"))
    /\ UNCHANGED nInputs

NextBackoff ==
    \/ FailedConnect
    \/ Retry

SpecBackoff == InitBackoff /\ [][NextBackoff]_vars

----------------------------------------------------------------------------
(* Observations used by the properties *)

Live == {s \in 1..Len(sockets) : sockets[s] # CLOSED}

Count(log, event) == Len(SelectSeq(log, LAMBDA e : e.event = event))

Reconnects == SelectSeq(emitted, LAMBDA e : e.event = "reconnect")

NoListeners == \A e \in WebSocketEvent : eventListeners[e] = <<>>

ACloseIsDelivered == \E s \in 1..Len(sockets) : sockets[s] # CLOSED /\ sockets'[s] = CLOSED

Exhausted == maxRetries.finite /\ retryCount = maxRetries.n

Terminated == Exhausted /\ Live = {} /\ timers = <<>> /\ socket # 0

----------------------------------------------------------------------------
(* C1: once close() has been called (the cancellation flag is true), no    *)
(* step creates a new transport handle; in particular the firing of a      *)
(* reconnect timer that was pending when close() was called creates none.  *)
(* The code does not check the flag when the timer fires (line 74), so     *)
(* this is violated: it is stated here as the claim makes it.              *)
C1_NoTransportAfterClose ==
    [][aborted => Len(sockets') = Len(sockets)]_vars

(* C2: with a finite maxRetries = M, when the transport closes and M       *)
(* reconnects have already been made since the last open, that close       *)
(* emits no reconnect event and schedules no timer, it leaves the instance *)
(* Terminated (no live transport, no pending timer), and a Terminated      *)
(* instance stays so: no later step creates a transport, schedules a       *)
(* timer or emits a reconnect event.                                       *)
C2_RetriesExhaustedTerminates ==
    [][/\ (Exhausted /\ socket # 0 /\ ACloseIsDelivered)
            => /\ Terminated'
               /\ Count(emitted', "reconnect") = Count(emitted, "reconnect")
       /\ Terminated
            => /\ Terminated'
               /\ Len(sockets') = Len(sockets)
               /\ Count(emitted', "reconnect") = Count(emitted, "reconnect")]_vars

C2_Witness ==
    /\ Terminated
    /\ maxRetries.n = 2
    /\ Len(sockets) = 3
    /\ Count(emitted, "reconnect") = 2
    /\ Count(emitted, "open") = 0

(* C3: in every reachable state the retry counter is within               *)
(* 0 .. maxRetries (no upper limit when maxRetries is Infinity).           *)
C3_RetryCountBounded ==
    /\ retryCount >= 0
    /\ maxRetries.finite => retryCount <= maxRetries.n

C3_Witness ==
    /\ maxRetries.finite
    /\ maxRetries.n = 2
    /\ retryCount = 2
    /\ timers # <<>>

(* C4: at most one transport handle is live (not yet closed) in every      *)
(* reachable state, so a transport is only ever created when every         *)
(* earlier one has delivered its close event.                              *)
C4_AtMostOneLiveTransport == Cardinality(Live) <= 1

C4_Witness ==
    /\ Len(sockets) = 3
    /\ Live = {3}
    /\ aborted
    /\ Count(emitted, "error") = 1

(* C5: a send() made while the transport is not open appends its           *)
(* serialized payload to the queue and transmits nothing; the step in      *)
(* which a transport opens transmits every queued payload on that          *)
(* transport, in queue order, each once, ahead of anything else, and       *)
(* leaves the queue empty.                                                 *)
C5_QueuedThenFlushedInOrder ==
    [][/\ (/\ Len(sendCalls') = Len(sendCalls) + 1
           /\ sockets' = sockets
           /\ socket # 0
           /\ sockets[socket] # OPEN)
            => /\ messageQueue' = Append(messageQueue, sendCalls'[Len(sendCalls')])
               /\ wire' = wire
       /\ \A s \in 1..Len(sockets) :
            (sockets[s] = CONNECTING /\ sockets'[s] = OPEN)
            => /\ messageQueue' = <<>>
               /\ Len(wire') >= Len(wire) + Len(messageQueue)
               /\ SubSeq(wire', 1, Len(wire)) = wire
               /\ \A i \in 1..Len(messageQueue) :
                     wire'[Len(wire) + i] = Transmission(s, messageQueue[i], "flush")
               /\ \A j \in (Len(wire) + Len(messageQueue) + 1)..Len(wire') :
                     wire'[j].from = "send"]_vars

C5_Witness ==
    /\ messageQueue = <<>>
    /\ sendCalls = <<"1", "2">>
    /\ wire = <<Transmission(2, "1", "flush"), Transmission(2, "2", "flush")>>

(* C6: the payloads transmitted so far, in transmission order, followed by *)
(* the payloads still queued, are exactly the payloads of the send() calls *)
(* in call order: nothing is transmitted ahead of an earlier payload, be   *)
(* it queued or direct, and a send made by an 'open' subscriber follows    *)
(* the flushed queue.                                                      *)
C6_TransmissionOrderIsCallOrder ==
    socket # 0 =>
        [i \in 1..Len(wire) |-> wire[i].message] \o messageQueue = sendCalls

C6_Witness ==
    /\ Len(delivered) = 1
    /\ delivered[1].cb = "cbSend"
    /\ wire = <<Transmission(1, "1", "flush"), Transmission(1, "0", "send")>>

(* C7: the k-th close event since the last open (or since construction)    *)
(* is followed at once by exactly one reconnect event when k <= maxRetries *)
(* and the instance is not cancelled, and that event carries attempt = k   *)
(* and delay = min(reconnectInterval * 2^(k-1), 30000); no reconnect event *)
(* is emitted anywhere else.                                               *)
LastOpenBefore(i) ==
    CHOOSE j \in 0..i :
        /\ j = 0 \/ emitted[j].event = "open"
        /\ \A m \in (j + 1)..i : emitted[m].event # "open"

ConsecutiveCloses(i) ==
    Cardinality({j \in (LastOpenBefore(i) + 1)..i : emitted[j].event = "close"})

IsReconnect(e, k) ==
    /\ e.event = "reconnect"
    /\ e.data.attempt = k
    /\ e.data.delay = Min(reconnectInterval * 2^(k - 1), 30000)

C7_ReconnectPerConsecutiveClose ==
    \A i \in 1..Len(emitted) :
        /\ (emitted[i].event = "close" /\ ~aborted
                /\ (maxRetries.finite => ConsecutiveCloses(i) <= maxRetries.n))
            => /\ i < Len(emitted)
               /\ IsReconnect(emitted[i + 1], ConsecutiveCloses(i))
        /\ emitted[i].event = "reconnect"
            => /\ i > 1
               /\ emitted[i - 1].event = "close"
               /\ maxRetries.finite => ConsecutiveCloses(i) <= maxRetries.n
               /\ IsReconnect(emitted[i], ConsecutiveCloses(i))

C7_Witness ==
    /\ maxRetries = Finite(2)
    /\ reconnectInterval = 100
    /\ ~aborted
    /\ Count(emitted, "close") = 3
    /\ emitted[Len(emitted)].event = "close"
    /\ Len(Reconnects) = 2
    /\ Reconnects[1].data = [attempt |-> 1, delay |-> 100]
    /\ Reconnects[2].data = [attempt |-> 2, delay |-> 200]

(* C8: over a run of consecutive failed connects, the delay of the         *)
(* reconnect scheduled after `attempt` earlier failures is                 *)
(* min(reconnectInterval * 2^attempt, 30000): it never exceeds 30000, it   *)
(* never decreases from one attempt to the next, and with the default      *)
(* interval 3000 it is 3000, 24000 and 30000 for attempts 0, 3 and 10.     *)
C8_BackoffDelay ==
    \A i \in 1..Len(Reconnects) :
        LET attempt == i - 1
            delay == Reconnects[i].data.delay
        IN  /\ Reconnects[i].data.attempt = i
            /\ delay <= 30000
            /\ delay = IF reconnectInterval * 2^attempt < 30000
                       THEN reconnectInterval * 2^attempt ELSE 30000
            /\ i > 1 => Reconnects[i - 1].data.delay <= delay
            /\ reconnectInterval = 3000 =>
                  /\ attempt = 0 => delay = 3000
                  /\ attempt = 3 => delay = 24000
                  /\ attempt = 10 => delay = 30000

C8_Witness ==
    /\ reconnectInterval = 3000
    /\ Len(Reconnects) = 11
    /\ Reconnects[4].data.delay = 24000
    /\ Reconnects[11].data.delay = 30000

(* C9: once the instance is terminated, by exhausted retries or by a       *)
(* close() call that has run to its end, no payload is transmitted on any  *)
(* transport in any later step.  The reconnect timer ignores the           *)
(* cancellation flag (see C1), so a transport opened after close() still   *)
(* flushes the queue: the claim is stated here as made, and it fails.      *)
C9_NothingTransmittedOnceTerminated ==
    [][(Terminated \/ (aborted /\ closePending = 0)) => wire' = wire]_vars

(* C10: a close() call made on an instance in the state a completed        *)
(* close() left it in (flag set, no subscriber, transport closing or       *)
(* closed) changes neither the flag, the subscriber registry, the retry    *)
(* counter, the queue nor any transport, emits nothing and schedules or    *)
(* makes no connect attempt, in either of its two steps.                   *)
C10_CloseIdempotent ==
    [][(/\ closePending' # closePending
        /\ aborted
        /\ NoListeners
        /\ closePending' < closePending
              => (socket = 0 \/ sockets[socket] \in {CLOSING, CLOSED}))
        => /\ aborted' = aborted
           /\ eventListeners' = eventListeners
           /\ retryCount' = retryCount
           /\ messageQueue' = messageQueue
           /\ sockets' = sockets
           /\ socket' = socket
           /\ timers' = timers
           /\ emitted' = emitted
           /\ delivered' = delivered
           /\ wire' = wire]_vars

C10_Witness ==
    /\ closeCalls = 2
    /\ closePending = 0
    /\ socket # 0
    /\ sockets[socket] = CLOSED
    /\ Count(emitted, "close") = 1

----------------------------------------------------------------------------
(* Subscribing and unsubscribing at will: up to MaxHubCalls calls of on    *)
(* and off, with two callbacks that return normally, around the life of    *)
(* one transport: it opens, receives, and closes with a retry left.        *)

MaxHubCalls == 3

HubSubscriptions == {<<"message", "cbLog">>, <<"message", "cbTrace">>,
                     <<"*", "cbLog">>}

InitHub == Starts(constructor(Finite(1), 100, "ok"))

HubOn ==
    /\ Len(calls) < MaxHubCalls
    /\ \E sub \in HubSubscriptions : Becomes(on(S, sub[1], sub[2]))
    /\ UNCHANGED nInputs

HubOff ==
    /\ Len(calls) < MaxHubCalls
    /\ \E sub \in HubSubscriptions : Becomes(off(S, sub[1], sub[2]))
    /\ UNCHANGED nInputs

NextHub ==
    \/ HubOn
    \/ HubOff
    \/ SocketOpen
    \/ SocketMessage
    \/ SocketClose

SpecHub == InitHub /\ [][NextHub]_vars

----------------------------------------------------------------------------
(* Subscribers that raise: a callback that throws (cbThrow) is subscribed  *)
(* to one event kind, once, before or during the life of the connection.   *)

ThrowingKinds == {"open", "close", "message", "error", "reconnect", "*"}

OnThrowing ==
    /\ calls = <<>>
    /\ \E event \in ThrowingKinds : Becomes(on(S, event, "cbThrow"))
    /\ UNCHANGED nInputs

NextThrow ==
    \/ OnThrowing
    \/ SocketOpen
    \/ SocketMessage
    \/ SocketError
    \/ SocketClose
    \/ ReconnectTimer

SpecThrow == Init /\ [][NextThrow]_vars

----------------------------------------------------------------------------
(* A consumer of messages(): it asks for the next element whenever it is   *)
(* not already waiting for one.                                            *)

Demand ==
    /\ consumer = "idle"
    /\ Becomes(demand(S))
    /\ UNCHANGED nInputs

NextMessages ==
    \/ Demand
    \/ Close
    \/ CloseResume
    \/ SocketOpen
    \/ SocketMessage
    \/ SocketClose
    \/ ReconnectTimer

SpecMessages == Init /\ [][NextMessages]_vars

----------------------------------------------------------------------------
(* Further observations *)

LastEmitted == emitted'[Len(emitted')]

AnOpenIsDelivered ==
    \E s \in 1..Len(sockets) : sockets[s] = CONNECTING /\ sockets'[s] = OPEN

(* C11: a close() call sets the cancellation flag and empties every        *)
(* subscriber set in its first step, with the transport untouched, and     *)
(* asks the transport to close only in its continuation; once the sets     *)
(* are empty no callback is invoked by any emission, the 'close' event of  *)
(* the closing transport included, and in the emission during which        *)
(* close() is called no callback runs after the calling one.               *)
C11_CloseClearsThenCloses ==
    [][/\ closeCalls' > closeCalls
            => /\ aborted'
               /\ NoListeners'
               /\ closePending' = closePending + 1
               /\ delivered' = delivered \/ delivered'[Len(delivered')].cb = "cbClose"
       /\ (closeCalls' > closeCalls /\ nInputs' > nInputs) => sockets' = sockets
       /\ closePending' < closePending
            => /\ aborted
               /\ socket # 0 => sockets'[socket] \in {CLOSING, CLOSED}
       /\ NoListeners => delivered' = delivered]_vars

C11_Witness ==
    /\ closeCalls = 1
    /\ calls = <<<<"on", "*", "cbLog">>>>
    /\ Len(delivered) = 1
    /\ Len(emitted) = 2
    /\ emitted[1].event = "open"
    /\ emitted[2].event = "close"

(* C15: the delivery of a malformed incoming payload emits exactly one     *)
(* 'error' event and no 'message' event and changes neither a transport,   *)
(* the current handle, the retry counter, the queue nor the timers.        *)
C15_MalformedPayloadOnlyReportsError ==
    [][(/\ Len(emitted') > Len(emitted)
        /\ LastEmitted.event = "error"
        /\ LastEmitted.data.message = "SyntaxError")
        => /\ Len(emitted') = Len(emitted) + 1
           /\ sockets' = sockets
           /\ socket' = socket
           /\ retryCount' = retryCount
           /\ messageQueue' = messageQueue
           /\ timers' = timers
           /\ aborted' = aborted]_vars

C15_Witness ==
    /\ Len(emitted) = 2
    /\ emitted[1].event = "open"
    /\ emitted[2].event = "error"
    /\ emitted[2].data.message = "SyntaxError"
    /\ sockets = <<OPEN>>
    /\ timers = <<>>

(* C16: a step that emits an 'error' event (a runtime transport error, a   *)
(* failed construction in a connect attempt, a malformed payload) emits    *)
(* nothing else, schedules no timer, leaves the retry counter and every    *)
(* transport as they were; and a timer whose connect attempt creates no    *)
(* transport emits exactly one 'error' event, carrying an Error.           *)
C16_ErrorsDoNotReconnect ==
    [][/\ Count(emitted', "error") > Count(emitted, "error")
            => /\ Len(emitted') = Len(emitted) + 1
               /\ Reconnects' = Reconnects
               /\ retryCount' = retryCount
               /\ Len(timers') <= Len(timers)
               /\ Len(timers') = Len(timers) => timers' = timers
               /\ sockets' = sockets
       /\ (Len(timers') < Len(timers) /\ Len(sockets') = Len(sockets))
            => /\ Len(emitted') = Len(emitted) + 1
               /\ LastEmitted.event = "error"
               /\ LastEmitted.data.name = "Error"
               /\ timers' # timers
               /\ Len(timers') = Len(timers) - 1]_vars

C16_Witness ==
    /\ sockets = <<CLOSED>>
    /\ retryCount = 1
    /\ timers = <<>>
    /\ Len(emitted) = 3
    /\ emitted[3].event = "error"
    /\ emitted[3].data.message = "An unknown error occurred"

(* C17: the delivery of a transport close emits 'close' first; then, when  *)
(* retryCount < maxRetries and the flag is false once 'close' has been     *)
(* delivered, it emits exactly one 'reconnect', counts one retry and       *)
(* schedules exactly one timer, and otherwise emits nothing more and       *)
(* schedules nothing; a timer makes exactly one connect attempt, and       *)
(* transports are created by timers only.                                  *)
C17_CloseThenRetryDecision ==
    [][/\ ACloseIsDelivered
            => /\ Len(emitted') > Len(emitted)
               /\ emitted'[Len(emitted) + 1].event = "close"
               /\ IF LessThan(retryCount, maxRetries) /\ ~aborted'
                  THEN /\ Len(emitted') = Len(emitted) + 2
                       /\ LastEmitted.event = "reconnect"
                       /\ Len(timers') = Len(timers) + 1
                       /\ retryCount' = retryCount + 1
                  ELSE /\ Len(emitted') = Len(emitted) + 1
                       /\ timers' = timers
                       /\ retryCount' = retryCount
       /\ Len(sockets') # Len(sockets)
            => /\ Len(sockets') = Len(sockets) + 1
               /\ Len(timers') = Len(timers) - 1
       /\ Len(timers') > Len(timers) => ACloseIsDelivered]_vars

C17_Witness ==
    /\ maxRetries = Finite(2)
    /\ retryCount = 0
    /\ aborted
    /\ timers = <<>>
    /\ Len(emitted) = 1
    /\ emitted[1].event = "close"
    /\ Len(delivered) = 1
    /\ delivered[1].cb = "cbClose"

(* C18: the retry counter is 0 after every open, grows by exactly one in   *)
(* every close that schedules a reconnect, and changes in no other step;   *)
(* so with a finite maxRetries a transport that keeps opening and closing  *)
(* is reconnected more than maxRetries times.                              *)
C18_RetryCountResetAndIncrement ==
    [][/\ AnOpenIsDelivered => retryCount' = 0
       /\ (ACloseIsDelivered /\ Len(timers') = Len(timers) + 1)
            => retryCount' = retryCount + 1
       /\ retryCount' # retryCount
            => \/ AnOpenIsDelivered
               \/ ACloseIsDelivered /\ Len(timers') = Len(timers) + 1]_vars

C18_Witness ==
    /\ maxRetries = Finite(2)
    /\ Count(emitted, "open") = 3
    /\ Count(emitted, "reconnect") = 3
    /\ retryCount = 1

(* C19: in every reachable state the pending reconnect timers and the      *)
(* live transports together number at most one.                            *)
C19_OneTimerOrOneTransport == Len(timers) + Cardinality(Live) <= 1

C19_Witness ==
    /\ Len(timers) = 1
    /\ Live = {}
    /\ Len(sockets) = 2
    /\ retryCount = 2

NewEmissions == SubSeq(emitted', Len(emitted) + 1, Len(emitted'))

NewDeliveries == SubSeq(delivered', Len(delivered) + 1, Len(delivered'))

Invocations(log, kind, cb) ==
    Len(SelectSeq(log, LAMBDA d : d.kind = kind /\ d.cb = cb))

Registered(listeners, kind) == {listeners[kind][i] : i \in 1..Len(listeners[kind])}

(* C12: on(kind, cb) makes the registered set of the kind the old set      *)
(* with cb and off(kind, cb) the old set without cb, an off of an          *)
(* unregistered callback changing nothing; and in every step a callback    *)
(* is invoked exactly once for each emission of a kind it is registered    *)
(* under (every emission, for the wildcard), however many times on was     *)
(* called for it, and not at all when it is not registered.                *)
C12_SubscribersAreSets ==
    [][\A sub \in HubSubscriptions :
          LET kind == sub[1]
              cb == sub[2]
              others == WebSocketEvent \ {kind}
          IN  /\ calls' = Append(calls, <<"on", kind, cb>>)
                   => /\ Registered(eventListeners', kind)
                            = Registered(eventListeners, kind) \cup {cb}
                      /\ \A e \in others : eventListeners'[e] = eventListeners[e]
              /\ calls' = Append(calls, <<"off", kind, cb>>)
                   => /\ Registered(eventListeners', kind)
                            = Registered(eventListeners, kind) \ {cb}
                      /\ \A e \in others : eventListeners'[e] = eventListeners[e]
                      /\ cb \notin Registered(eventListeners, kind)
                            => eventListeners' = eventListeners
              /\ Invocations(NewDeliveries, kind, cb)
                   = IF cb \in Registered(eventListeners, kind)
                     THEN IF kind = "*" THEN Len(NewEmissions)
                                        ELSE Count(NewEmissions, kind)
                     ELSE 0]_vars

C12_Witness ==
    /\ calls = << <<"on", "message", "cbLog">>, <<"on", "message", "cbLog">>,
                  <<"off", "message", "cbLog">> >>
    /\ Count(emitted, "message") = 2
    /\ Invocations(delivered, "message", "cbLog") = 1
    /\ eventListeners["message"] = <<>>

Envelope(e) == [event |-> e.event, data |-> e.data]

ExpectedDeliveries(listeners, e) ==
    [i \in 1..Len(listeners[e.event]) |->
        [cb |-> listeners[e.event][i], arg |-> e.data, kind |-> e.event]]
    \o [i \in 1..Len(listeners["*"]) |->
        [cb |-> listeners["*"][i], arg |-> Envelope(e), kind |-> "*"]]

RECURSIVE ExpectedForAll(_, _)
ExpectedForAll(listeners, es) ==
    IF es = <<>> THEN <<>>
    ELSE ExpectedDeliveries(listeners, Head(es))
         \o ExpectedForAll(listeners, Tail(es))

SameDelivery(got, expected) ==
    /\ got.cb = expected.cb
    /\ got.kind = expected.kind
    /\ IF got.kind = "*"
       THEN got.arg.event = expected.arg.event /\ got.arg.data = expected.arg.data
       ELSE got.arg = expected.arg

(* C13: the callbacks invoked in a step are, for each event the step       *)
(* emits and in emission order, the exact-kind subscribers with the        *)
(* event's data and then every wildcard subscriber, once, with the         *)
(* envelope that tags the event's kind and carries its data; so n          *)
(* emissions make exactly n envelope deliveries to a wildcard subscriber.  *)
C13_WildcardEnvelopePerEmission ==
    [][LET expected == ExpectedForAll(eventListeners, NewEmissions)
       IN  /\ Len(NewDeliveries) = Len(expected)
           /\ \A i \in 1..Len(expected) :
                  SameDelivery(NewDeliveries[i], expected[i])]_vars

C13_Witness ==
    /\ eventListeners["*"] = <<"cbLog">>
    /\ eventListeners["message"] = <<"cbTrace">>
    /\ Len(emitted) = 5
    /\ Invocations(delivered, "*", "cbLog") = 5
    /\ \A k \in {"open", "message", "error", "close", "reconnect"} :
          \E i \in 1..Len(delivered) :
              delivered[i].kind = "*" /\ delivered[i].arg.event = k

(* C14: a transport close never lets an exception escape, and when the     *)
(* retry is eligible (retryCount < maxRetries and the flag false) it       *)
(* schedules the reconnect timer, whatever the subscribers do.             *)
C14_EmissionNeverThrowsOutward ==
    [][ACloseIsDelivered
        => /\ raised' = raised
           /\ (LessThan(retryCount, maxRetries) /\ ~aborted')
                => Len(timers') = Len(timers) + 1]_vars

(* C20: the consumer's one-shot subscriber is registered only while a      *)
(* demand is pending; a message emitted while it is registered resolves    *)
(* the demand with that message and unregisters it, a message emitted      *)
(* while it is not registered yields nothing, nothing else yields; and     *)
(* close() unregisters it, after which the pending demand stays pending    *)
(* and unregistered for ever.                                              *)
C20_OneShotSubscriberPerDemand ==
    [][LET registered == Contains(eventListeners["message"], "onMessage")
           registeredAfter == Contains(eventListeners'["message"], "onMessage")
           aMessage == Count(emitted', "message") > Count(emitted, "message")
       IN  /\ registeredAfter => consumer' = "waiting"
           /\ (aMessage /\ registered)
                => /\ yielded' = Append(yielded, LastEmitted.data)
                   /\ consumer' = "idle"
                   /\ ~registeredAfter
           /\ (aMessage /\ ~registered) => yielded' = yielded
           /\ yielded' # yielded => aMessage /\ registered
           /\ closeCalls' > closeCalls => ~registeredAfter
           /\ (consumer = "waiting" /\ ~registered)
                => /\ consumer' = "waiting"
                   /\ ~registeredAfter
                   /\ yielded' = yielded]_vars

C20_Witness ==
    /\ consumer = "waiting"
    /\ closeCalls = 1
    /\ closePending = 0
    /\ calls = <<<<"on", "message", "onMessage">>>>
    /\ Count(emitted, "message") = 1
    /\ yielded = <<>>

====
